---- MODULE Spec2Model ----
(***************************************************************************)
(* gitfs: a read-only io/fs.FS over a go-git object.Tree.                  *)
(*                                                                         *)
(* The model covers gitFS (Open, ReadDir, Sub, toFSError) and gitFile      *)
(* (load, Stat, Read, Close, Info, Size, ...).  Paths are strings,         *)
(* modelled as sequences of one-character strings, so that fs.ValidPath    *)
(* and strings.Split are computed character by character.                  *)
(* The object store is go-git's: a map from hash to tree or blob object.   *)
(***************************************************************************)
EXTENDS Integers, Sequences, FiniteSets, TLC

\* ------------------------------------------------------------------ bounds

\* Longest path, in segments, handed to Open, ReadDir and Sub.
MaxSegs == 3
\* Number of gitFS values alive at once (the one from New plus those from Sub).
MaxViews == 3
\* Largest buffer handed to Read.
MaxBuf == 2
\* Number of Stat/Info/Read/Close calls followed on one handle.
MaxCalls == 6

\* ------------------------------------------------------- strings and paths

\* The characters in use, in byte order ('.' = 0x2E < '/' = 0x2F < letters).
CharOrder == <<".", "/", "a", "b", "t">>

Ord(c) == CHOOSE i \in 1..Len(CharOrder) : CharOrder[i] = c

\* Go's string comparison s < t: bytewise lexicographic.
RECURSIVE StrLess(_, _)
StrLess(s, t) ==
  IF t = <<>> THEN FALSE
  ELSE IF s = <<>> THEN TRUE
  ELSE IF Ord(Head(s)) # Ord(Head(t)) THEN Ord(Head(s)) < Ord(Head(t))
  ELSE StrLess(Tail(s), Tail(t))

\* Index of the first "/" in s, or Len(s) + 1 when there is none.
RECURSIVE IndexSlash(_)
IndexSlash(s) ==
  IF s = <<>> THEN 1
  ELSE IF Head(s) = "/" THEN 1
  ELSE 1 + IndexSlash(Tail(s))

\* The element loop of io/fs.ValidPath: every "/"-separated element is
\* non-empty and is neither "." nor "..".
RECURSIVE ValidElems(_)
ValidElems(name) ==
  LET i    == IndexSlash(name)
      elem == SubSeq(name, 1, i - 1)
  IN  IF elem \in {<<>>, <<".">>, <<".", ".">>} THEN FALSE
      ELSE IF i = Len(name) + 1 THEN TRUE
      ELSE ValidElems(SubSeq(name, i + 1, Len(name)))

\* io/fs.ValidPath as called by Open and ReadDir (every string here is ASCII,
\* so the utf8.ValidString test passes).
ValidPath(name) ==
  \/ name = <<".">>
  \/ ValidElems(name)

\* strings.Split(path, "/").
RECURSIVE Split(_)
Split(path) ==
  LET i == IndexSlash(path)
  IN  IF i = Len(path) + 1 THEN <<path>>
      ELSE <<SubSeq(path, 1, i - 1)>> \o Split(SubSeq(path, i + 1, Len(path)))

\* parts joined by "/".
RECURSIVE JoinSegs(_)
JoinSegs(parts) ==
  IF Len(parts) = 1 THEN parts[1]
  ELSE parts[1] \o <<"/">> \o JoinSegs(Tail(parts))

Dot == <<".">>

\* The path segments the operations are called with: the empty segment, "."
\* and "..", and the names "a", "a.t" and "b".
Segs == {<<>>, <<".">>, <<".", ".">>, <<"a">>, <<"a", ".", "t">>, <<"b">>}

PathInputs ==
  {JoinSegs(s) : s \in UNION {[1..n -> Segs] : n \in 1..MaxSegs}}

\* ------------------------------------------------------------ object store

\* filemode values of go-git; "Malformed" stands for any mode ToOSFileMode
\* rejects (a tree object can carry any octal mode).
TreeEntry(name, mode, hash) == [Name |-> name, Mode |-> mode, Hash |-> hash]

TreeObject(entries) == [type |-> "tree", Entries |-> entries, data |-> <<>>]

BlobObject(data) == [type |-> "blob", Entries |-> <<>>, data |-> data]

\* The objects of the store.  Two snapshots live in it:
\*   T1: a.t = <<1,2,3>>, a/ (T2);  T2: a/ (T3), b = <<>>;  T3: b = <<4>>
\*   T4: a.t -> blob B9 and a/ -> tree T9, both absent from the store
\*       (a partial or damaged store), and b with a malformed mode.
\* Tree entries are in git's canonical order, in which a directory sorts as
\* if its name ended in "/": "a.t" precedes the directory "a".
objects ==
  ("T1" :> TreeObject(<<TreeEntry(<<"a", ".", "t">>, "Regular", "B1"),
                        TreeEntry(<<"a">>, "Dir", "T2")>>)) @@
  ("T2" :> TreeObject(<<TreeEntry(<<"a">>, "Dir", "T3"),
                        TreeEntry(<<"b">>, "Regular", "B2")>>)) @@
  ("T3" :> TreeObject(<<TreeEntry(<<"b">>, "Regular", "B3")>>)) @@
  ("T4" :> TreeObject(<<TreeEntry(<<"a", ".", "t">>, "Regular", "B9"),
                        TreeEntry(<<"a">>, "Dir", "T9"),
                        TreeEntry(<<"b">>, "Malformed", "B1")>>)) @@
  ("B1" :> BlobObject(<<1, 2, 3>>)) @@
  ("B2" :> BlobObject(<<>>)) @@
  ("B3" :> BlobObject(<<4>>))

\* The trees New is called with.
Roots == {"T1", "T4"}

\* The key git sorts tree entries by: the name, with "/" appended for a tree.
GitSortKey(e) == IF e.Mode = "Dir" THEN e.Name \o <<"/">> ELSE e.Name

\* Every tree of the store is in git's canonical order.
TreesCanonical ==
  \A h \in DOMAIN objects :
    LET es == objects[h].Entries
    IN  \A i \in 1..(Len(es) - 1) : StrLess(GitSortKey(es[i]), GitSortKey(es[i + 1]))

\* storer.EncodedObject(t, h): an object of another type counts as absent.
HasObject(type, h) == h \in DOMAIN objects /\ objects[h].type = type

NilEntry == [Name |-> <<>>, Mode |-> "Empty", Hash |-> "nil"]

\* Tree.entry(baseName): the entry of that name in tree t.
entry(t, baseName) ==
  LET es == objects[t].Entries
  IN  IF \E i \in 1..Len(es) : es[i].Name = baseName
      THEN [err |-> "nil", entry |-> es[CHOOSE i \in 1..Len(es) : es[i].Name = baseName]]
      ELSE [err |-> "ErrEntryNotFound", entry |-> NilEntry]

\* Tree.dir(baseName): the child tree of that name.  A missing name is
\* ErrDirectoryNotFound; a name whose object is no tree of the store is the
\* storer's plumbing.ErrObjectNotFound, passed on as is.
dir(t, baseName) ==
  LET e == entry(t, baseName)
  IN  IF e.err # "nil" THEN [err |-> "ErrDirectoryNotFound", tree |-> "nil"]
      ELSE IF ~HasObject("tree", e.entry.Hash)
        THEN [err |-> "ErrObjectNotFound", tree |-> "nil"]
      ELSE [err |-> "nil", tree |-> e.entry.Hash]

\* The walk of Tree.FindEntry over the split path.  FindEntry also keeps a
\* cache of the trees it walked, keyed by the cleaned path prefix.  For a
\* valid path the cached tree is the one the walk reaches, so the cache is
\* left out; for a path with "" or "." segments, which only Sub hands down,
\* this is the walk on a cold cache.
RECURSIVE walk(_, _)
walk(t, pathParts) ==
  IF Len(pathParts) > 1
  THEN LET d == dir(t, Head(pathParts))
       IN  IF d.err # "nil" THEN [err |-> d.err, entry |-> NilEntry]
           ELSE walk(d.tree, Tail(pathParts))
  ELSE entry(t, pathParts[1])

\* Tree.FindEntry(path).
FindEntry(t, path) == walk(t, Split(path))

\* Tree.Tree(path): every FindEntry failure, and an entry whose object is no
\* tree of the store, is ErrDirectoryNotFound.
Tree(t, path) ==
  LET e == FindEntry(t, path)
  IN  IF e.err # "nil" THEN [err |-> "ErrDirectoryNotFound", tree |-> "nil"]
      ELSE IF ~HasObject("tree", e.entry.Hash)
        THEN [err |-> "ErrDirectoryNotFound", tree |-> "nil"]
      ELSE [err |-> "nil", tree |-> e.entry.Hash]

NilBlob == [nil |-> TRUE, Size |-> 0, Hash |-> "nil"]

\* Tree.TreeEntryFile(e): the blob of the entry, or plumbing.ErrObjectNotFound.
TreeEntryFile(e) ==
  IF HasObject("blob", e.Hash)
  THEN [err |-> "nil",
        file |-> [nil |-> FALSE, Size |-> Len(objects[e.Hash].data), Hash |-> e.Hash]]
  ELSE [err |-> "ErrObjectNotFound", file |-> NilBlob]

\* FileMode.ToOSFileMode.
OSMode(isDir, symlink, perm) == [IsDir |-> isDir, Symlink |-> symlink, Perm |-> perm]

ToOSFileMode(m) ==
  CASE m = "Dir"        -> [err |-> "nil", mode |-> OSMode(TRUE, FALSE, "0777")]
    [] m = "Submodule"  -> [err |-> "nil", mode |-> OSMode(TRUE, FALSE, "0777")]
    [] m = "Regular"    -> [err |-> "nil", mode |-> OSMode(FALSE, FALSE, "0644")]
    [] m = "Deprecated" -> [err |-> "nil", mode |-> OSMode(FALSE, FALSE, "0644")]
    [] m = "Executable" -> [err |-> "nil", mode |-> OSMode(FALSE, FALSE, "0755")]
    [] m = "Symlink"    -> [err |-> "nil", mode |-> OSMode(FALSE, TRUE, "0777")]
    [] OTHER            -> [err |-> "ErrMalformedMode", mode |-> OSMode(FALSE, FALSE, "0")]

\* ------------------------------------------------------------------ errors

\* &fs.PathError{Op, Path, Err}.
PathError(op, path, err) == [tagged |-> TRUE, Op |-> op, Path |-> path, Err |-> err]

\* An error value returned as it came, with no operation or path attached.
RawError(err) == [tagged |-> FALSE, Op |-> "", Path |-> <<>>, Err |-> err]

NoError == RawError("nil")

toFSError(op, name, err) ==
  PathError(op, name,
            IF err \in {"ErrDirectoryNotFound", "ErrEntryNotFound", "ErrFileNotFound"}
            THEN "ErrNotExist" ELSE err)

\* ----------------------------------------------------------------- gitFile

NilReader == [nil |-> TRUE, pos |-> 0, closes |-> 0]

NilFile ==
  [nil |-> TRUE, tree |-> "nil", entry |-> NilEntry,
   mode |-> OSMode(FALSE, FALSE, "0"), file |-> NilBlob, r |-> NilReader]

newGitFile(tree, e) ==
  LET m == ToOSFileMode(e.Mode)
  IN  IF m.err # "nil" THEN [err |-> m.err, file |-> NilFile]
      ELSE [err |-> "nil",
            file |-> [nil |-> FALSE, tree |-> tree, entry |-> e, mode |-> m.mode,
                      file |-> NilBlob, r |-> NilReader]]

\* gitFile.Name, Size, Mode, IsDir, Type.
Name(g) == g.entry.Name

Size(g) == IF ~g.file.nil THEN g.file.Size ELSE 0

Mode(g) == g.mode

IsDir(g) == g.mode.IsDir

Type(g) ==
  IF g.mode.IsDir THEN "ModeDir" ELSE IF g.mode.Symlink THEN "ModeSymlink" ELSE "0"

\* A load that fetches the blob again although one is cached.
loadAlways(g) ==
  IF g.mode.IsDir THEN [err |-> "nil", g |-> g, fetched |-> FALSE]
  ELSE LET b == TreeEntryFile(g.entry)
       IN  [err |-> b.err, g |-> [g EXCEPT !.file = b.file], fetched |-> TRUE]

\* gitFile.load: the handle after the call, the error, and whether the store
\* was asked for the blob.
load(g) ==
  IF ~g.file.nil \/ g.mode.IsDir THEN [err |-> "nil", g |-> g, fetched |-> FALSE]
  ELSE LET b == TreeEntryFile(g.entry)
       IN  [err |-> b.err, g |-> [g EXCEPT !.file = b.file], fetched |-> TRUE]

\* ------------------------------------------------------------------- gitFS

\* gitFS.Open(name) on the view whose tree is t.
gitFS_Open(t, name) ==
  IF ~ValidPath(name)
  THEN [file |-> NilFile, err |-> toFSError("open", name, "ErrInvalid")]
  ELSE LET e == IF name = Dot
                THEN [err |-> "nil",
                      entry |-> [Name |-> Dot, Mode |-> "Dir", Hash |-> t]]
                ELSE FindEntry(t, name)
       IN  IF e.err # "nil"
           THEN [file |-> NilFile, err |-> toFSError("open", name, e.err)]
           ELSE LET nf == newGitFile(t, e.entry)
                IN  IF nf.err # "nil"
                    THEN [file |-> NilFile, err |-> toFSError("open", name, nf.err)]
                    ELSE [file |-> nf.file, err |-> NoError]

\* The loop of ReadDir over tree.Entries, from index i: the files made so
\* far, or the first error of newGitFile.
RECURSIVE dirEntries(_, _)
dirEntries(tree, i) ==
  IF i > Len(objects[tree].Entries) THEN [err |-> "nil", entries |-> <<>>]
  ELSE LET nf   == newGitFile(tree, objects[tree].Entries[i])
           rest == dirEntries(tree, i + 1)
       IN  IF nf.err # "nil" THEN [err |-> nf.err, entries |-> <<>>]
           ELSE IF rest.err # "nil" THEN rest
           ELSE [err |-> "nil", entries |-> <<nf.file>> \o rest.entries]

\* A ReadDir that reports a regular file as missing.
gitFS_ReadDirStrict(t, name) ==
  IF ~ValidPath(name)
  THEN [entries |-> <<>>, err |-> toFSError("readdir", name, "ErrInvalid")]
  ELSE LET tr == IF name = Dot THEN [err |-> "nil", tree |-> t] ELSE Tree(t, name)
       IN  IF tr.err # "nil"
           THEN [entries |-> <<>>, err |-> toFSError("readdir", name, tr.err)]
           ELSE LET es == dirEntries(tr.tree, 1)
                IN  IF es.err # "nil"
                    THEN [entries |-> <<>>, err |-> toFSError("readdir", name, es.err)]
                    ELSE [entries |-> es.entries, err |-> NoError]

\* gitFS.ReadDir(name) on the view whose tree is t.
gitFS_ReadDir(t, name) ==
  IF ~ValidPath(name)
  THEN [entries |-> <<>>, err |-> toFSError("readdir", name, "ErrInvalid")]
  ELSE LET tr == IF name = Dot THEN [err |-> "nil", tree |-> t] ELSE Tree(t, name)
       IN  IF tr.err # "nil"
           THEN IF FindEntry(t, name).err = "nil"
                THEN [entries |-> <<>>, err |-> NoError]
                ELSE [entries |-> <<>>, err |-> toFSError("readdir", name, tr.err)]
           ELSE LET es == dirEntries(tr.tree, 1)
                IN  IF es.err # "nil"
                    THEN [entries |-> <<>>, err |-> toFSError("readdir", name, es.err)]
                    ELSE [entries |-> es.entries, err |-> NoError]

\* A Sub that resolves dir from the snapshot root T1 instead of the view.
gitFS_SubFromRoot(t, d) ==
  LET tr == Tree("T1", d)
  IN  IF tr.err # "nil"
      THEN [tree |-> "nil", err |-> toFSError("sub", d, tr.err)]
      ELSE [tree |-> tr.tree, err |-> NoError]

\* gitFS.Sub(dir) on the view whose tree is t: the tree of the new view.
gitFS_Sub(t, d) ==
  LET tr == Tree(t, d)
  IN  IF tr.err # "nil"
      THEN [tree |-> "nil", err |-> toFSError("sub", d, tr.err)]
      ELSE [tree |-> tr.tree, err |-> NoError]

\* ------------------------------------------------------------------- state

VARIABLES
  name,    \* the path the caller passes to Open, ReadDir and Sub
  fss,     \* the gitFS values alive: fss[i].tree is the hash of its tree
  origin,  \* history: origin[i] = the view that fss[i] was made from by Sub
  f,       \* the gitFile under use (NilFile before the first Open)
  ret,     \* what the last call returned
  hist     \* history of f: bytes read, storage fetches, calls made

vars == <<name, fss, origin, f, ret, hist>>

NoRet ==
  [op |-> "new", fs |-> 1, err |-> NoError, entries |-> <<>>, sub |-> 0,
   n |-> 0, size |-> 0]

FreshHist ==
  [acc |-> <<>>, eof |-> FALSE, readErr |-> FALSE, fetches |-> 0,
   attempts |-> 0, calls |-> 0]

\* New(tree), and the path the caller is about to use.
Init ==
  /\ name \in PathInputs
  /\ \E t \in Roots : fss = <<[tree |-> t]>>
  /\ origin = <<0>>
  /\ f = NilFile
  /\ ret = NoRet
  /\ hist = FreshHist

Views == 1..Len(fss)

\* fss[v].Open(name): a fresh handle replaces the one under use.
Open(v) ==
  LET res == gitFS_Open(fss[v].tree, name)
  IN  /\ ret' = [NoRet EXCEPT !.op = "open", !.fs = v, !.err = res.err]
      /\ f' = res.file
      /\ hist' = FreshHist
      /\ UNCHANGED <<name, fss, origin>>

\* fss[v].ReadDir(name).
ReadDir(v) ==
  LET res == gitFS_ReadDir(fss[v].tree, name)
  IN  /\ ret' = [NoRet EXCEPT !.op = "readdir", !.fs = v, !.err = res.err,
                              !.entries = res.entries]
      /\ UNCHANGED <<name, fss, origin, f, hist>>

\* fss[v].Sub(name): on success a new gitFS is made; fss[v] is left as it is.
Sub(v) ==
  LET res == gitFS_Sub(fss[v].tree, name)
  IN  IF res.err # NoError
      THEN /\ ret' = [NoRet EXCEPT !.op = "sub", !.fs = v, !.err = res.err]
           /\ UNCHANGED <<name, fss, origin, f, hist>>
      ELSE /\ Len(fss) < MaxViews
           /\ fss' = Append(fss, [tree |-> res.tree])
           /\ origin' = Append(origin, v)
           /\ ret' = [NoRet EXCEPT !.op = "sub", !.fs = v, !.sub = Len(fss) + 1]
           /\ UNCHANGED <<name, f, hist>>

\* The calls on a filesystem value.
Next ==
  \/ \E v \in Views : Open(v)
  \/ \E v \in Views : ReadDir(v)
  \/ \E v \in Views : Sub(v)

Spec == Init /\ [][Next]_vars

\* ------------------------------------------------------- calls on a gitFile

\* f.Stat(), reached as Stat or through Info: load, then the handle itself
\* is the FileInfo, whose Size is read off the cached blob.
StatOp(op) ==
  /\ ~f.nil
  /\ hist.calls < MaxCalls
  /\ LET l == load(f)
     IN  /\ f' = l.g
         /\ ret' = IF l.err # "nil"
                   THEN [NoRet EXCEPT !.op = op, !.fs = ret.fs, !.err = RawError(l.err)]
                   ELSE [NoRet EXCEPT !.op = op, !.fs = ret.fs, !.size = Size(l.g)]
         /\ hist' = [hist EXCEPT
                       !.calls = @ + 1,
                       !.attempts = IF l.fetched THEN @ + 1 ELSE @,
                       !.fetches = IF l.fetched /\ l.err = "nil" THEN @ + 1 ELSE @]
  /\ UNCHANGED <<name, fss, origin>>

Stat == StatOp("stat")

\* f.Info() returns g.Stat().
Info == StatOp("info")

\* What Read on the content stream can return with a buffer of n bytes, as
\* [k, err]: k bytes from the position, or EOF at the end.  A stream may
\* return fewer bytes than asked.  Once the stream was closed the store in use
\* decides: an in-memory object keeps reading, a file-backed one fails.
streamRead(r, data, n) ==
  (IF r.pos >= Len(data) THEN {[k |-> 0, err |-> "EOF"]}
   ELSE {[k |-> k, err |-> "nil"] :
           k \in 1..(IF n < Len(data) - r.pos THEN n ELSE Len(data) - r.pos)})
  \cup (IF r.closes > 0 THEN {[k |-> 0, err |-> "ErrClosed"]} ELSE {})

\* A Read that opens a new stream on every call.
ReadReopen(n) ==
  /\ ~f.nil
  /\ hist.calls < MaxCalls
  /\ ~f.mode.IsDir
  /\ load(f).err = "nil"
  /\ \E o \in streamRead([nil |-> FALSE, pos |-> 0, closes |-> 0],
                         objects[load(f).g.file.Hash].data, n) :
       /\ f' = [load(f).g EXCEPT !.r = [nil |-> FALSE, pos |-> o.k, closes |-> 0]]
       /\ ret' = [NoRet EXCEPT !.op = "read", !.fs = ret.fs, !.n = o.k,
                               !.err = RawError(o.err)]
       /\ hist' = [hist EXCEPT
                     !.calls = @ + 1,
                     !.acc = @ \o SubSeq(objects[load(f).g.file.Hash].data, 1, o.k),
                     !.eof = @ \/ o.err = "EOF"]
  /\ UNCHANGED <<name, fss, origin>>

\* f.Read(bs) with len(bs) = n.
Read(n) ==
  /\ ~f.nil
  /\ hist.calls < MaxCalls
  /\ IF f.mode.IsDir
     THEN /\ f' = f
          /\ ret' = [NoRet EXCEPT !.op = "read", !.fs = ret.fs, !.err = RawError("EOF")]
          /\ hist' = [hist EXCEPT !.calls = @ + 1, !.eof = TRUE]
     ELSE LET l == load(f)
          IN  IF l.err # "nil"
              THEN /\ f' = l.g
                   /\ ret' = [NoRet EXCEPT !.op = "read", !.fs = ret.fs,
                                           !.err = RawError(l.err)]
                   /\ hist' = [hist EXCEPT !.calls = @ + 1,
                                           !.attempts = IF l.fetched THEN @ + 1 ELSE @,
                                           !.readErr = TRUE]
              ELSE LET g1   == IF l.g.r.nil
                               THEN [l.g EXCEPT !.r = [nil |-> FALSE, pos |-> 0, closes |-> 0]]
                               ELSE l.g
                       data == objects[g1.file.Hash].data
                   IN  \E o \in streamRead(g1.r, data, n) :
                         /\ f' = [g1 EXCEPT !.r.pos = @ + o.k]
                         /\ ret' = [NoRet EXCEPT !.op = "read", !.fs = ret.fs, !.n = o.k,
                                                 !.err = RawError(o.err)]
                         /\ hist' = [hist EXCEPT
                                       !.calls = @ + 1,
                                       !.attempts = IF l.fetched THEN @ + 1 ELSE @,
                                       !.fetches = IF l.fetched THEN @ + 1 ELSE @,
                                       !.acc = @ \o SubSeq(data, g1.r.pos + 1, g1.r.pos + o.k),
                                       !.eof = @ \/ o.err = "EOF",
                                       !.readErr = @ \/ o.err = "ErrClosed"]
  /\ UNCHANGED <<name, fss, origin>>

\* What Close on the content stream can return: nil the first time; on a
\* stream already released the store in use decides.
streamClose(r) ==
  IF r.closes = 0 THEN {"nil"} ELSE {"nil", "ErrClosed"}

\* f.Close(): r.closes counts the Close calls that reached the stream.
Close ==
  /\ ~f.nil
  /\ hist.calls < MaxCalls
  /\ IF ~f.r.nil
     THEN /\ f' = [f EXCEPT !.r.closes = @ + 1]
          /\ \E e \in streamClose(f.r) :
               ret' = [NoRet EXCEPT !.op = "close", !.fs = ret.fs, !.err = RawError(e)]
     ELSE /\ f' = f
          /\ ret' = [NoRet EXCEPT !.op = "close", !.fs = ret.fs]
  /\ hist' = [hist EXCEPT !.calls = @ + 1]
  /\ UNCHANGED <<name, fss, origin>>

\* The life of one handle: Open on the view from New, then calls on the file.
NextFile ==
  \/ Open(1)
  \/ Stat
  \/ Info
  \/ \E n \in 1..MaxBuf : Read(n)
  \/ Close

SpecFile == Init /\ [][NextFile]_vars

\* ------------------------------------------------------------------ claims

LastOnFS == ret.op \in {"open", "readdir", "sub"}

\* The tree of the view the last call was made on.
RetTree == fss[ret.fs].tree

\* The path is not a valid relative path: it is not the lone "." and one of
\* its segments is empty (which covers a leading or trailing slash), "." or
\* "..".
InvalidRelativePath(p) ==
  /\ p # Dot
  /\ \E i \in 1..Len(Split(p)) : Split(p)[i] \in {<<>>, <<".">>, <<".", ".">>}

\* Where the segments lead from tree t: "entry" (with the entry), "missing"
\* when a segment names no child (a regular file has no children), or "fault"
\* when the store cannot supply a directory on the way.
RECURSIVE Resolve(_, _)
Resolve(t, parts) ==
  LET es   == objects[t].Entries
      here == {i \in 1..Len(es) : es[i].Name = Head(parts)}
  IN  IF here = {} THEN [kind |-> "missing", entry |-> NilEntry]
      ELSE LET e == es[CHOOSE i \in here : TRUE]
           IN  IF Len(parts) = 1 THEN [kind |-> "entry", entry |-> e]
               ELSE IF e.Mode = "Regular" THEN [kind |-> "missing", entry |-> NilEntry]
               ELSE IF ~HasObject("tree", e.Hash) THEN [kind |-> "fault", entry |-> NilEntry]
               ELSE Resolve(e.Hash, Tail(parts))

\* The directory tree a valid path denotes in t, or "nil".
DirOf(t, p) ==
  IF p = Dot THEN t
  ELSE LET r == Resolve(t, Split(p))
       IN  IF r.kind = "entry" /\ r.entry.Mode = "Dir" /\ r.entry.Hash \in DOMAIN objects
           THEN r.entry.Hash ELSE "nil"

\* C1: for a path that is not a valid relative path, Open, ReadDir and Sub
\* each fail with InvalidPath (never NotFound, never a success).
C1_InvalidPathRejected ==
  (LastOnFS /\ InvalidRelativePath(name)) => ret.err.Err = "ErrInvalid"

\* C2: for a valid path other than "." whose walk hits a missing segment,
\* Open, ReadDir and Sub each fail with NotFound; Sub also fails with NotFound
\* on a path that denotes a file.
C2_MissingIsNotFound ==
  (LastOnFS /\ ~InvalidRelativePath(name) /\ name # Dot) =>
    LET r == Resolve(RetTree, Split(name))
    IN  /\ r.kind = "missing" => ret.err.Err = "ErrNotExist"
        /\ (ret.op = "sub" /\ r.kind = "entry" /\ r.entry.Mode = "Regular")
             => ret.err.Err = "ErrNotExist"

\* C3: a call never swallows a failure of the store (an object the store
\* cannot supply): it returns an error, and every error it returns carries
\* the name of the operation and the path.
C3_ErrorsTaggedNeverDropped ==
  /\ ret.err.Err \notin {"nil", "EOF"} =>
       (ret.err.tagged /\ ret.err.Op = ret.op /\ ret.err.Path = name)
  /\ (ret.op = "readdir" /\ ~InvalidRelativePath(name) /\ name # Dot
        /\ Resolve(RetTree, Split(name)).kind = "entry"
        /\ Resolve(RetTree, Split(name)).entry.Mode = "Dir"
        /\ Resolve(RetTree, Split(name)).entry.Hash \notin DOMAIN objects)
       => ret.err # NoError

\* s is a prefix of t.
IsPrefix(s, t) == Len(s) <= Len(t) /\ SubSeq(t, 1, Len(s)) = s

\* The bytes at the path a handle was opened on: none for a directory.
Content(g) ==
  IF g.mode.IsDir \/ g.entry.Hash \notin DOMAIN objects THEN <<>>
  ELSE objects[g.entry.Hash].data

\* C4: on a handle that was not closed, the bytes read so far are a prefix of
\* the content, at end-of-stream they are exactly the content (nothing for a
\* directory), and no read fails when the store holds the content.
C4_ReadYieldsContent ==
  (~f.nil /\ f.r.closes = 0) =>
    /\ IsPrefix(hist.acc, Content(f))
    /\ hist.eof => hist.acc = Content(f)
    /\ (f.mode.IsDir \/ HasObject("blob", f.entry.Hash)) => ~hist.readErr

\* A whole file of three bytes was read by more than one Read.
C4_Witness ==
  /\ ~f.nil /\ ~f.mode.IsDir /\ f.r.closes = 0
  /\ hist.eof /\ hist.acc = <<1, 2, 3>> /\ hist.calls >= 3

\* C5: ReadDir on a path that denotes a directory returns its immediate
\* children, each once, in ascending order of name.
C5_ListingSortedByName ==
  (ret.op = "readdir" /\ ret.err = NoError /\ ~InvalidRelativePath(name)
     /\ DirOf(RetTree, name) # "nil") =>
    LET es == ret.entries
        ch == objects[DirOf(RetTree, name)].Entries
    IN  /\ \A i \in 1..(Len(es) - 1) : StrLess(Name(es[i]), Name(es[i + 1]))
        /\ {Name(es[i]) : i \in 1..Len(es)} = {ch[i].Name : i \in 1..Len(ch)}
        /\ Len(es) = Len(ch)

\* What a caller can tell of an Open result: the error category, and the
\* entry and mode of the file.
OpenOutcome(r) == <<r.err.Err, r.file.nil, r.file.entry, r.file.mode>>

\* What a caller can tell of a ReadDir result.
ReadDirOutcome(r) == <<r.err.Err, r.entries>>

\* Views on trees s and t answer every Open and ReadDir alike.
EquivalentViews(s, t) ==
  \A p \in PathInputs :
    /\ OpenOutcome(gitFS_Open(s, p)) = OpenOutcome(gitFS_Open(t, p))
    /\ ReadDirOutcome(gitFS_ReadDir(s, p)) = ReadDirOutcome(gitFS_ReadDir(t, p))

\* C6: Sub(".") succeeds and returns a view equivalent to the one it was
\* called on.
C6_SubDotIsSameView ==
  (ret.op = "sub" /\ name = Dot) =>
    /\ ret.err = NoError
    /\ ret.sub \in Views
    /\ EquivalentViews(fss[ret.sub].tree, RetTree)

\* Every view made by Sub(name), name a valid path, answers Open and ReadDir
\* of a valid path p other than "." as its parent answers name/p.
ScopedMatchesJoined ==
  \A i \in Views :
    (origin[i] # 0 /\ ValidPath(name) /\ name # Dot) =>
      \A p \in {q \in PathInputs : ValidPath(q) /\ q # Dot} :
        /\ OpenOutcome(gitFS_Open(fss[i].tree, p))
             = OpenOutcome(gitFS_Open(fss[origin[i]].tree, name \o <<"/">> \o p))
        /\ ReadDirOutcome(gitFS_ReadDir(fss[i].tree, p))
             = ReadDirOutcome(gitFS_ReadDir(fss[origin[i]].tree, name \o <<"/">> \o p))

\* C7: Open and ReadDir of p on Sub(d) give what name d/p gives on the view
\* itself, and no call changes the tree of a view that exists.
C7_ScopedEqualsJoined ==
  /\ [](ScopedMatchesJoined)
  /\ [][\A i \in Views : fss'[i] = fss[i]]_vars

\* A view made by Sub("a") on which a file was opened.
C7_Witness ==
  /\ Len(fss) >= 2 /\ origin[2] = 1
  /\ ret.op = "open" /\ ret.fs = 2 /\ ret.err = NoError /\ ~f.nil

\* C8: ReadDir on a valid path that denotes a regular file returns an empty
\* sequence and no error.
C8_ReadDirOnFileIsEmpty ==
  (ret.op = "readdir" /\ ~InvalidRelativePath(name) /\ name # Dot
     /\ Resolve(RetTree, Split(name)).kind = "entry"
     /\ Resolve(RetTree, Split(name)).entry.Mode = "Regular") =>
    (ret.err = NoError /\ ret.entries = <<>>)

\* ReadDir was called on a file below the root.
C8_Witness ==
  /\ ret.op = "readdir" /\ ret.err = NoError /\ ret.entries = <<>>
  /\ name = <<"a", "/", "b">> /\ RetTree = "T1"

OnHandle == ret'.op \in {"stat", "info", "read", "close"}

\* C9: on one handle the blob is fetched with success at most once; once it
\* is cached no call asks the store again and the size stays; a failed load
\* leaves the cache unset, and a Stat, Info or Read on an unset cache asks
\* the store.
C9_LoadedOnce ==
  /\ [](hist.fetches <= 1)
  /\ [][OnHandle =>
          /\ ~f.file.nil =>
               (f'.file = f.file /\ Size(f') = Size(f)
                  /\ hist'.attempts = hist.attempts /\ hist'.fetches = hist.fetches)
          /\ (hist'.attempts > hist.attempts /\ hist'.fetches = hist.fetches)
               => f'.file.nil
          /\ (f.file.nil /\ ~f.mode.IsDir /\ ret'.op # "close")
               => hist'.attempts = hist.attempts + 1]_vars

\* Several calls were made on a handle whose blob was fetched once.
C9_Witness ==
  ~f.nil /\ ~f.file.nil /\ hist.fetches = 1 /\ hist.attempts = 1 /\ hist.calls >= 4

\* C10: Close succeeds every time, and after the first Close that released
\* the stream no later Close reaches the stream again.
C10_CloseIdempotent ==
  /\ ret.op = "close" => ret.err = NoError
  /\ ~f.nil => f.r.closes <= 1

====
